---- MODULE Spec2Model ----
(***************************************************************************)
(* A model of kronos' Modeler (src/kronos/modeler.py), of the static       *)
(* helpers of src/mlf_project/modeler.py and of the backend contract as    *)
(* implemented by src/kronos/models/krns_tensorflow.py.                    *)
(*                                                                         *)
(* Four specifications share the variables; each one drives one part of    *)
(* the orchestrator and leaves the other parts idle:                       *)
(*   SpecSplit       train_test_split (both modelers)                      *)
(*   SpecTraining    training(): batch setup and the per-model loop        *)
(*   SpecDeploy      deploy() and unit_test() against the model registry   *)
(*   SpecPrediction  prediction(): primary path and naive fallback         *)
(***************************************************************************)
EXTENDS Integers, Sequences, FiniteSets, TLC

\* ------------------------------------------------------------------ bounds
\* rows of a dataset given to train_test_split
MaxRows == 3
\* largest n_test given to train_test_split
MaxNTest == 2
\* rows of a dataset given to training()
TrainMaxRows == 4

\* rows and dates of the history given to prediction
PredMaxRows == 2
PredMaxDate == 2
\* fcst_first_date is at most PredMaxDate + MaxGap
MaxGap == 3
\* largest fcst_horizon
MaxHorizon == 5

\* configurations given to training()
MaxModels == 2

\* deploy() invocations in a row
MaxDeploys == 3
\* largest n_unit_test
MaxUnitTest == 2

\* largest finite metric value of a performance row
MaxMetric == 1
\* metric names requested from evaluate_model
MaxMetrics == 2

\* metric values of a row; forecasts of a model
Vals == {-1, 0, 2}

\* ------------------------------------------------------------ data helpers
Min(a, b) == IF a <= b THEN a ELSE b

Max(a, b) == IF a >= b THEN a ELSE b

Range(s) == {s[i] : i \in 1..Len(s)}

\* a DataFrame of one key: rows (date, y), one row per date, in any order
Rows(dates, vals) == [date : dates, y : vals]

DataFrames(maxLen, dates, vals) ==
  UNION { {s \in [1..k -> Rows(dates, vals)] :
             \A i, j \in 1..k : i # j => s[i].date # s[j].date} : k \in 0..maxLen }

\* an attribute that is None until it is assigned
None == [set |-> FALSE, rows |-> <<>>]

Some(s) == [set |-> TRUE, rows |-> s]

MaxDateOf(s) == CHOOSE d \in {s[i].date : i \in 1..Len(s)} :
                  \A i \in 1..Len(s) : s[i].date <= d

MinDateOf(s) == CHOOSE d \in {s[i].date : i \in 1..Len(s)} :
                  \A i \in 1..Len(s) : s[i].date >= d

RemoveAt(s, i) == SubSeq(s, 1, i - 1) \o SubSeq(s, i + 1, Len(s))

RECURSIVE SortValuesAsc(_)
SortValuesAsc(s) ==
  IF Len(s) = 0 THEN <<>>
  ELSE LET i == CHOOSE k \in 1..Len(s) : s[k].date = MinDateOf(s)
       IN  <<s[i]>> \o SortValuesAsc(RemoveAt(s, i))

\* DataFrame.sort_values(by=[date_col], ascending=False)
RECURSIVE SortValuesDesc(_)
SortValuesDesc(s) ==
  IF Len(s) = 0 THEN <<>>
  ELSE LET i == CHOOSE k \in 1..Len(s) : s[k].date = MaxDateOf(s)
       IN  <<s[i]>> \o SortValuesDesc(RemoveAt(s, i))

\* DataFrame.iloc[n:, :]
ILocFrom(s, n) == SubSeq(s, Min(n, Len(s)) + 1, Len(s))

\* DataFrame.iloc[:n, :]
ILocTo(s, n) == SubSeq(s, 1, Min(n, Len(s)))

\* ---------------------------------------------------------------- state
VARIABLES
  data,        \* Modeler.data
  n_test,      \* Modeler.n_test
  train_data,  \* Modeler.train_data
  test_data,   \* Modeler.test_data
  split_pc,    \* how Modeler.train_test_split ended: idle, returned, raised
  split_log,   \* what train_test_split logged: none, completed, error
  mlf_split,   \* result of mlf_project's static train_test_split
  fcst_first_date,  \* Modeler.fcst_first_date
  fcst_horizon,     \* Modeler.fcst_horizon
  future_only,      \* Modeler.future_only
  p_pc,        \* how Modeler.prediction ended: idle, returned, raised
  p_path,      \* the path that produced pred: none, primary, fallback
  p_raw,       \* the forecast values before "Remove negative values"
  pred,        \* the table prediction() returns
  registry,    \* model registry: the stage of each version of the key
  tags,        \* versions carrying the model_flavor tag
  n_unit_test, \* Modeler.n_unit_test
  winner,      \* the row winning_model_name selects in df_performances
  d_pc,        \* position in Modeler.deploy
  d_count,     \* deploy invocations started
  d_reqs,      \* registry requests of the current invocation, in order
  d_version,   \* model_details / model_version of the invocation (0: none)
  unit_test_status,  \* what unit_test returned: unset, OK, KO, None
  d_loaded,    \* the version unit_test loaded (0: none)
  prod_before, \* the Production versions when the invocation began
  models_config,   \* Modeler.models_config: the flavor token of each name, in order
  models,      \* training(): what create_all_models returned
  t_pc,        \* position in Modeler.training
  t_idx,       \* the configuration the loop is at (its index is its name)
  cur,         \* the locals of the iteration: fitted model, artifact, pred, evals
  open_runs,   \* tracker: the runs that are open
  opens,       \* tracker: the runs ever opened
  closes,      \* tracker: how many times each run was closed
  started,     \* configurations whose pipeline was started
  raised_in,   \* configurations whose pipeline raised
  handler_raised,  \* the configuration whose handler's end_run raised (0: none)
  df_performances, \* Modeler.df_performances
  t_fatal,     \* "Training failed" was logged
  fcst_competition_metric_weights,  \* Modeler.fcst_competition_metric_weights
  winning_model_name,  \* Modeler.winning_model_name ("None": unset)
  pe_pc,       \* how Modeler.prod_model_eval ended: idle, returned, raised
  pe_log,      \* the step whose failure prod_model_eval logged (none: no failure)
  c_pc,        \* how Modeler.competition ended: idle, returned, raised
  c_log,       \* what competition logged: none, error
  df_entered,  \* df_performances as competition() found it
  metrics,     \* evaluate_model: the metric names requested
  ev_pc,       \* how kronos' evaluate_model ended: idle, returned, raised
  ev_log,      \* what evaluate_model's handler logged: none, error
  ev_out,      \* what kronos' evaluate_model returned: None or the mapping
  mlf_eval,    \* mlf_project's evaluate_model: the name given and the result
  other,      \* the locals of a second, concurrent deploy() for the same key
  snapshots   \* the train_data and test_data of the Modeler each backend holds

splitVars == <<data, n_test, train_data, test_data, split_pc, split_log, mlf_split>>

predVars == <<fcst_first_date, fcst_horizon, future_only, p_pc, p_path, p_raw, pred>>

deployVars == <<registry, tags, n_unit_test, winner, d_pc, d_count, d_reqs,
                d_version, unit_test_status, d_loaded, prod_before>>

trainVars == <<models_config, models, t_pc, t_idx, cur, open_runs, opens, closes,
               started, raised_in, handler_raised, df_performances, t_fatal>>

compVars == <<fcst_competition_metric_weights, winning_model_name, pe_pc, pe_log,
              c_pc, c_log, df_entered>>

evalVars == <<metrics, ev_pc, ev_log, ev_out, mlf_eval>>

concVars == <<other>>

backendVars == <<snapshots>>

vars == <<splitVars, predVars, deployVars, trainVars,
          compVars, evalVars, concVars, backendVars>>

\* ------------------------------------------------------- train_test_split
\* the body of the try block: raise on too few rows, else the two slices
TrainTestSplitBody(d, n) ==
  IF Len(d) - n < n
  THEN [raised |-> TRUE, train |-> <<>>, test |-> <<>>]
  ELSE [raised |-> FALSE,
        train |-> ILocFrom(SortValuesDesc(d), n),
        test |-> ILocTo(SortValuesDesc(d), n)]

\* kronos: "except Exception as e: logger.error(...)": the call returns
SplitOutcome(raised) == "returned"

\* mlf_project: no try block, the exception reaches the caller
MlfSplitOutcome(raised) == IF raised THEN "raised" ELSE "returned"

\* Modeler.__init__ placeholders and the state of an orchestrator not splitting
SplitIdle ==
  /\ train_data = None
  /\ test_data = None
  /\ split_pc = "idle"
  /\ split_log = "none"
  /\ mlf_split = [status |-> "idle", train |-> <<>>, test |-> <<>>]

\* Modeler.train_test_split (kronos) as its callers see it
TrainTestSplitCall ==
  LET r == TrainTestSplitBody(data, n_test) IN
    /\ train_data' = IF r.raised THEN train_data ELSE Some(r.train)
    /\ test_data' = IF r.raised THEN test_data ELSE Some(r.test)
    /\ split_log' = IF r.raised THEN "error" ELSE "completed"
    /\ split_pc' = SplitOutcome(r.raised)

\* a call of Modeler.train_test_split; the constructor needs one row at least
train_test_split ==
  /\ split_pc = "idle"
  /\ Len(data) >= 1
  /\ TrainTestSplitCall
  /\ UNCHANGED <<data, n_test, mlf_split>>
  /\ UNCHANGED <<predVars, deployVars, trainVars, compVars, evalVars, concVars, backendVars>>

\* Modeler.train_test_split (mlf_project): static, returns the pair
mlf_train_test_split ==
  /\ mlf_split.status = "idle"
  /\ LET r == TrainTestSplitBody(data, n_test) IN
       mlf_split' = [status |-> MlfSplitOutcome(r.raised),
                     train |-> r.train, test |-> r.test]
  /\ UNCHANGED <<data, n_test, train_data, test_data, split_pc, split_log>>
  /\ UNCHANGED <<predVars, deployVars, trainVars, compVars, evalVars, concVars, backendVars>>

\* ------------------------------------------------------------- prediction
\* a fitted model: its i-th autoregressive output
ProdModels == [odd : Vals, even : Vals]

ModelOutput(m, i) == IF i % 2 = 1 THEN m.odd ELSE m.even

\* data[data[date_col] < fcst_first_date]
HistoricData(d, first) ==
  LET Before(r) == r.date < first IN SelectSeq(d, Before)

\* pred[pred[date_col] >= fcst_first_date]
FromFirstDate(tbl, first) ==
  LET Kept(r) == r.date >= first IN SelectSeq(tbl, Kept)

\* KRNSTensorflow.predict: the table, or None ("failed") when anything in it
\* raised, which an empty history always does
KrnsPredict(m, fails, d, n_days, first, fo) ==
  LET hist == HistoricData(d, first) IN
  IF fails \/ Len(hist) = 0
  THEN [failed |-> TRUE, rows |-> <<>>]
  ELSE LET last_observed_day == MaxDateOf(hist)
           difference == first - last_observed_day
           horizon == difference + n_days - 1
           tbl == [x \in 1..Max(horizon, 0) |->
                     [date |-> last_observed_day + x, fcst |-> ModelOutput(m, x)]]
       IN  [failed |-> FALSE,
            rows |-> IF fo THEN FromFirstDate(tbl, first) ELSE tbl]

\* historic_data.sort_values(by=date_col, ascending=False).iloc[0][metric_col]
LastValue(hist) == SortValuesDesc(hist)[1].y

\* a fallback horizon that forgets the "- 1"
ActualHorizonNoMinusOne(difference, horizon) == difference + horizon

\* fcst_horizon = difference + self.fcst_horizon - 1
ActualHorizon(difference, horizon) == difference + horizon - 1

\* the except block of prediction(): the naive forecast; it raises (IndexError
\* of .iloc[0]) when no row is dated before fcst_first_date
NaiveForecast(d, first, horizon, fo) ==
  LET hist == HistoricData(d, first) IN
  IF Len(hist) = 0
  THEN [raised |-> TRUE, rows |-> <<>>]
  ELSE LET last_observed_day == MaxDateOf(hist)
           difference == first - last_observed_day
           h == ActualHorizon(difference, horizon)
           last_value == LastValue(hist)
           tbl == [x \in 1..Max(h, 0) |->
                     [date |-> last_observed_day + x, fcst |-> last_value]]
       IN  [raised |-> FALSE,
            rows |-> IF fo THEN FromFirstDate(tbl, first) ELSE tbl]

\* a clamp that lets every value through
ClampIdentity(x) == x

\* lambda x: x if x >= 0 else 0
Clamp(x) == IF x >= 0 THEN x ELSE 0

\* the columns added to both paths' table, and the clamp
Finish(tbl, first) ==
  [i \in 1..Len(tbl) |->
     [date |-> tbl[i].date, fcst |-> Clamp(tbl[i].fcst),
      reference |-> first, creation |-> first - 1, key |-> "key"]]

PredIdle ==
  /\ p_pc = "idle"
  /\ p_path = "none"
  /\ p_raw = <<>>
  /\ pred = <<>>

\* how the try block of prediction() can go: a failure of load_model, of
\* model_generation (it returned None) or of predict, or none of them with
\* the production model answering
PrimaryOutcomes ==
  {[failure |-> f, model |-> [odd |-> 0, even |-> 0]] :
     f \in {"load_model", "model_generation", "predict"}}
  \cup {[failure |-> "none", model |-> m] : m \in ProdModels}

\* Modeler.prediction
prediction ==
  /\ p_pc = "idle"
  /\ \E o \in PrimaryOutcomes :
       LET primary == KrnsPredict(o.model, o.failure = "predict", data,
                                  fcst_horizon, fcst_first_date, future_only)
           try_raised == o.failure # "none" \/ primary.failed
           naive == NaiveForecast(data, fcst_first_date, fcst_horizon, future_only)
       IN  IF ~try_raised
           THEN /\ p_path' = "primary"
                /\ p_raw' = primary.rows
                /\ pred' = Finish(primary.rows, fcst_first_date)
                /\ p_pc' = "returned"
           ELSE IF naive.raised
           THEN /\ p_path' = "fallback"
                /\ p_raw' = <<>>
                /\ pred' = <<>>
                /\ p_pc' = "raised"
           ELSE /\ p_path' = "fallback"
                /\ p_raw' = naive.rows
                /\ pred' = Finish(naive.rows, fcst_first_date)
                /\ p_pc' = "returned"
  /\ UNCHANGED <<fcst_first_date, fcst_horizon, future_only>>
  /\ UNCHANGED <<splitVars, deployVars, trainVars, compVars, evalVars, concVars, backendVars>>

PredInputsIdle ==
  /\ fcst_first_date = 1
  /\ fcst_horizon = 1
  /\ future_only = TRUE

\* ----------------------------------------------------------------- deploy
\* the rows deploy() can find under winning_model_name: none (no winner),
\* the baseline (run_id None, model_config None), a trained model whose
\* configuration holds the key model_flavor, and one whose does not
Winners == {"none", "prod_model", "with_flavor", "without_flavor"}

Stages == {"None", "Staging", "Production", "Archived"}

VersionsIn(reg, stage) == {v \in 1..Len(reg) : reg[v] = stage}

\* registry.registerModel: a new version, in no stage
RegisterModel(reg) == Append(reg, "None")

\* registry.promote(version, stage, archiveExisting)
PromoteModel(reg, version, stage, archive) ==
  [v \in 1..Len(reg) |->
     IF v = version THEN stage
     ELSE IF archive /\ reg[v] = stage THEN "Archived"
     ELSE reg[v]]

\* registry.loadModel("models:/<name>/<stage>"): the latest version in the
\* stage (0: there is none and the load fails)
LoadModel(reg, stage) ==
  IF VersionsIn(reg, stage) = {} THEN 0
  ELSE CHOOSE v \in VersionsIn(reg, stage) : \A w \in VersionsIn(reg, stage) : w <= v

\* a deploy that goes on after a failed request (a handler around one step)
DeployStepContinues(ok, next) == next

\* "try: ... except Exception as e: logger.error(...)": a step that raised
\* ends the invocation, which returns
DeployStep(ok, next) == IF ok THEN next ELSE "returned"

\* a gate that lets every completed unit test through
UnitTestGateCompleted(status) == status \in {"OK", "KO"}

\* a gate that stops a KO only
UnitTestGateNotKo(status) == status # "KO"

\* if unit_test_status == "OK"
UnitTestGate(status) == status = "OK"

\* "OK" if len(pred) == self.n_unit_test else "KO"
UnitTestCheck(count, requested) == IF count = requested THEN "OK" ELSE "KO"

\* promote_model(stage="production", archive_existing_versions=False)
ArchiveOnProductionOff == FALSE

\* promote_model(stage="production", archive_existing_versions=True)
ArchiveOnProduction == TRUE

\* promote_model(stage="staging", archive_existing_versions=False)
ArchiveOnStagingOff == FALSE

\* promote_model(stage="staging", archive_existing_versions=True)
ArchiveOnStaging == TRUE

Request(op, ok) == [op |-> op, ok |-> ok]

DeployIdle ==
  /\ registry = <<>>
  /\ tags = {}
  /\ n_unit_test = 1
  /\ winner = "none"
  /\ d_pc = "idle"
  /\ d_count = 0
  /\ d_reqs = <<>>
  /\ d_version = 0
  /\ unit_test_status = "unset"
  /\ d_loaded = 0
  /\ prod_before = {}

\* the kind of row self.winning_model_name names: None selects no row, the
\* baseline's row has no configuration, a trained row has one. Where the table
\* and the competition are left out (an empty table, no competition), the
\* winner is any of the four kinds
WinnerKinds ==
  IF df_performances = <<>> /\ c_pc = "idle" THEN Winners
  ELSE IF winning_model_name = "None" THEN {"none"}
  ELSE IF winning_model_name = "prod_model" THEN {"prod_model"}
  ELSE {"with_flavor", "without_flavor"}

\* a lookup that finds a row under any name
RowFoundAlways(w) == TRUE

\* df_performances.loc[winning_model_name]: a KeyError when no row has the
\* name, as with the None of a Modeler that selected no winner
RowFound(w) == w # "none"

\* deploy(), entry: df_performances.loc[winning_model_name] raises a KeyError
\* when there is no winner
deploy_lookup ==
  /\ d_pc \in {"idle", "returned"}
  /\ d_count < MaxDeploys
  /\ d_count' = d_count + 1
  /\ \E w \in WinnerKinds :
       /\ winner' = w
       /\ d_pc' = DeployStep(RowFound(w), "register")
  /\ d_reqs' = <<>>
  /\ d_version' = 0
  /\ unit_test_status' = "unset"
  /\ d_loaded' = 0
  /\ prod_before' = VersionsIn(registry, "Production")
  /\ UNCHANGED <<registry, tags, n_unit_test>>
  /\ UNCHANGED <<splitVars, predVars, trainVars, compVars, evalVars, concVars, backendVars>>

\* deploy(), "Register the model"
deploy_register ==
  /\ d_pc = "register"
  /\ \E ok \in BOOLEAN :
       /\ d_reqs' = Append(d_reqs, Request("register", ok))
       /\ registry' = IF ok THEN RegisterModel(registry) ELSE registry
       /\ d_version' = IF ok THEN Len(registry) + 1 ELSE d_version
       /\ d_pc' = DeployStep(ok, "set_tag")
  /\ UNCHANGED <<tags, n_unit_test, winner, d_count, unit_test_status,
                 d_loaded, prod_before>>
  /\ UNCHANGED <<splitVars, predVars, trainVars, compVars, evalVars, concVars, backendVars>>

\* deploy(), "Set model flavor tag": "model_flavor" in None raises a TypeError
\* for the baseline row; without the key no request is made
deploy_set_tag ==
  /\ d_pc = "set_tag"
  /\ \/ /\ winner = "prod_model"
        /\ d_pc' = DeployStep(FALSE, "promote_staging")
        /\ UNCHANGED <<d_reqs, tags>>
     \/ /\ winner = "without_flavor"
        /\ d_pc' = DeployStep(TRUE, "promote_staging")
        /\ UNCHANGED <<d_reqs, tags>>
     \/ /\ winner = "with_flavor"
        /\ \E ok \in BOOLEAN :
             /\ d_reqs' = Append(d_reqs, Request("set_tag", ok))
             /\ tags' = IF ok THEN tags \cup {d_version} ELSE tags
             /\ d_pc' = DeployStep(ok, "promote_staging")
  /\ UNCHANGED <<registry, n_unit_test, winner, d_count, d_version,
                 unit_test_status, d_loaded, prod_before>>
  /\ UNCHANGED <<splitVars, predVars, trainVars, compVars, evalVars, concVars, backendVars>>

\* deploy(), "Transition to staging stage and archive the last one"
deploy_promote_staging ==
  /\ d_pc = "promote_staging"
  /\ \E ok \in BOOLEAN :
       /\ d_reqs' = Append(d_reqs, Request("promote_staging", ok))
       /\ registry' = IF ok
                      THEN PromoteModel(registry, d_version, "Staging", ArchiveOnStaging)
                      ELSE registry
       /\ d_pc' = DeployStep(ok, "unit_test")
  /\ UNCHANGED <<tags, n_unit_test, winner, d_count, d_version,
                 unit_test_status, d_loaded, prod_before>>
  /\ UNCHANGED <<splitVars, predVars, trainVars, compVars, evalVars, concVars, backendVars>>

\* unit_test(model_version.name, model_version.current_stage): its own try
\* block turns a failed load, a failed model_generation and a predict that
\* returned None (len(None)) into the return value None
unit_test ==
  /\ d_pc = "unit_test"
  /\ \E load_fails \in BOOLEAN, generation_fails \in BOOLEAN,
        predict_fails \in BOOLEAN, count \in 0..(MaxUnitTest + 1) :
       LET loaded == IF load_fails THEN 0 ELSE LoadModel(registry, "Staging")
           raised == loaded = 0 \/ generation_fails \/ predict_fails
           status == IF raised THEN "None" ELSE UnitTestCheck(count, n_unit_test)
       IN  /\ d_loaded' = loaded
           /\ unit_test_status' = status
           /\ d_reqs' = Append(d_reqs, Request("unit_test", ~raised))
           /\ d_pc' = IF UnitTestGate(status) THEN "promote_production"
                      ELSE "returned"
  /\ UNCHANGED <<registry, tags, n_unit_test, winner, d_count, d_version,
                 prod_before>>
  /\ UNCHANGED <<splitVars, predVars, trainVars, compVars, evalVars, concVars, backendVars>>

\* deploy(), "Deploying model to Production"
deploy_promote_production ==
  /\ d_pc = "promote_production"
  /\ \E ok \in BOOLEAN :
       /\ d_reqs' = Append(d_reqs, Request("promote_production", ok))
       /\ registry' = IF ok
                      THEN PromoteModel(registry, d_version, "Production",
                                        ArchiveOnProduction)
                      ELSE registry
       /\ d_pc' = DeployStep(ok, "returned")
  /\ UNCHANGED <<tags, n_unit_test, winner, d_count, d_version,
                 unit_test_status, d_loaded, prod_before>>
  /\ UNCHANGED <<splitVars, predVars, trainVars, compVars, evalVars, concVars, backendVars>>

\* ------------------------------------------------- the performance table
\* Modeler.fcst_competition_metrics: one column of df_performances each
fcst_competition_metrics == <<"rmse", "mape">>

\* mean / std of a column as a float. A finite quotient is kept as the three
\* integers that determine it: mean = sum / n and std (one degree of freedom
\* less) = sqrt(dev / (n * (n - 1))) with dev = n * sum of squares - sum^2
Quotient(kind, sum, n, dev) == [kind |-> kind, sum |-> sum, n |-> n, dev |-> dev]

\* nothing was subtracted from the value yet
NoQuotient == Quotient("zero", 0, 0, 0)

\* a float of a metric column: finite (num), an infinity or NaN, minus the
\* quotient subtracted from it
Float(kind, num, q) == [kind |-> kind, num |-> num, minus |-> q]

\* a row of df_performances: error_avg is unset until competition() adds it
Score(kind, num, den) == [kind |-> kind, num |-> num, den |-> den]

NoScore == Score("unset", 0, 0)

\* the row training() writes: the model object (fitted, with its logged
\* artifact or not), the run and the metric values
TrainedRow(name, run_id, fitted, artifact, values) ==
  [model_name |-> name, run_id |-> run_id, fitted |-> fitted,
   artifact |-> artifact, metrics |-> values, error_avg |-> NoScore]

\* a row of a model that was fitted and logged; the baseline's row has no run
\* (run_id 0) and wraps the model loaded from the registry
PerformanceRow(name, run_id, values) == TrainedRow(name, run_id, TRUE, TRUE, values)

\* df_performances.loc[name] = row: the row of that name is replaced, a new
\* name is appended
SetRow(df, row) ==
  IF \E i \in 1..Len(df) : df[i].model_name = row.model_name
  THEN [i \in 1..Len(df) |->
          IF df[i].model_name = row.model_name THEN row ELSE df[i]]
  ELSE Append(df, row)

\* --------------------------------------------------------------- training
\* the names of the configurations given to training(): keys of models_config
ConfigNames == {"tensorflow_1", "prophet_1", "foo_1", "prod_model"}

\* model_flavor = model_name.split("_")[0]
model_flavor(model_name) ==
  CASE model_name = "tensorflow_1" -> "tensorflow"
    [] model_name = "prophet_1" -> "prophet"
    [] model_name = "foo_1" -> "foo"
    [] model_name = "prod_model" -> "prod"

\* a model_generation that builds a backend whatever the flavor is
AnyFlavorBuilt(flavor) == IF flavor = "tensorflow" THEN "tensorflow" ELSE "external"

\* model_generation: the backend object built for a flavor; the ValueError of
\* an unsupported flavor is logged and the method returns None
model_generation(flavor) ==
  IF flavor = "tensorflow" THEN "tensorflow"
  ELSE IF flavor \in {"prophet", "pmdarima"} THEN "external"
  ELSE "None"

\* a configuration key that is no string: model_name.split raises on it
BadKey == "not_a_string"

\* create_all_models: one object per configuration, in configuration order;
\* an exception in the loop is logged and the method returns None
create_all_models(config) ==
  IF \E i \in 1..Len(config) : config[i] = BadKey
  THEN None
  ELSE Some([i \in 1..Len(config) |-> model_generation(model_flavor(config[i]))])

\* a backend that keeps the Modeler it is given
ModelerShared == "reference"

\* KRNSTensorflow.__init__: self.modeler = copy.deepcopy(modeler)
ModelerHeld == "copy"

\* the train_data and test_data of the Modeler a backend holds
Snapshot(train, test) == [train_data |-> train, test_data |-> test]

\* no backend was built for the configuration
NoSnapshot == Snapshot(None, None)

\* np.array(frame[metric_col]): the values of the metric column without their
\* dates; subscripting None raises, which preprocess logs, and the attribute
\* stays None
MetricArray(frame) ==
  IF frame.set
  THEN Some([i \in 1..Len(frame.rows) |-> [y |-> frame.rows[i].y]])
  ELSE frame

\* KRNSTensorflow.preprocess on the Modeler the backend holds
TensorflowPreprocess(held) ==
  Snapshot(MetricArray(held.train_data), MetricArray(held.test_data))

\* preprocess of the other backends: the columns of the backend's own frames
\* are renamed
ExternalPreprocess(held) ==
  LET renamed(frame) ==
        IF frame.set
        THEN Some([i \in 1..Len(frame.rows) |->
                     [ds |-> frame.rows[i].date, y |-> frame.rows[i].y]])
        ELSE frame
  IN  Snapshot(renamed(held.train_data), renamed(held.test_data))

\* what preprocess leaves in the Modeler the backend holds
Preprocess(obj, held, fails) ==
  IF obj = "None" \/ fails THEN held
  ELSE IF obj = "tensorflow" THEN TensorflowPreprocess(held)
  ELSE ExternalPreprocess(held)

BackendIdle == snapshots = <<>>

\* a method of KRNSTensorflow: its own try block logs the failure and the
\* method returns None
TensorflowCall(fails) == IF fails THEN "swallowed" ELSE "ok"

\* a method of the other backends: a BackendFailure reaches the caller
ExternalCall(fails) == IF fails THEN "raised" ELSE "ok"

\* a call of a backend method as training() sees it: calling a method of None
\* (model_generation failed) raises an AttributeError
BackendCall(obj, fails) ==
  IF obj = "None" THEN "raised"
  ELSE IF obj = "tensorflow" THEN TensorflowCall(fails)
  ELSE ExternalCall(fails)

\* the value is a DataFrame: it has its date column
IsFrame(v) == v.set /\ \A i \in 1..Len(v.rows) : "date" \in DOMAIN v.rows[i]

\* KRNSTensorflow.fit: its except block formats self.modeler.train_data.head(1),
\* which raises in turn on the array preprocess left there (and on None), so
\* the failure is swallowed only while train_data is still a DataFrame
TensorflowFit(held, fails) ==
  IF ~fails THEN "ok"
  ELSE IF IsFrame(held.train_data) THEN "swallowed"
  ELSE "raised"

\* model.fit() as training() sees it
FitCall(obj, held, fails) ==
  IF obj = "tensorflow" THEN TensorflowFit(held, fails) ELSE BackendCall(obj, fails)

\* an inner handler that only logs: "except Exception as e: logger.error(...)"
InnerHandlerLogsOnly == FALSE

\* the inner handler: logger.error(...) and self.ml_flower.end_run()
InnerHandlerEndsRun == TRUE

\* tracker.endRun: the open run, if any, is closed
EndRunCloses(c, runs) == [i \in DOMAIN c |-> IF i \in runs THEN c[i] + 1 ELSE c[i]]

\* a loop body that goes on with the next statement after an exception
TrainStepContinues(raised, next) == next

\* a step of one model's pipeline: on an exception the inner handler is next
TrainStep(raised, next) == IF raised THEN "handler" ELSE next

\* "for model_name, model in models.items()": the next configuration or the end
LoopNext(idx, n) == IF idx < n THEN "start_run" ELSE "done"

\* the fitted model of a trained candidate
TrainedModel == [odd |-> 2, even |-> 2]

\* model.predict(n_days=self.n_test, fcst_first_date=test_data[date_col].min(),
\* future_only=True)
PredictCall(test, n) ==
  [n_days |-> n, fcst_first_date |-> MinDateOf(test), future_only |-> TRUE]

\* the table that call returns, computed on the data of the Modeler the
\* backend holds
TrainingPredict(d, call) ==
  KrnsPredict(TrainedModel, FALSE, d, call.n_days, call.fcst_first_date,
              call.future_only).rows

\* evaluate_model(actual=self.test_data[metric_col].values,
\* pred=pred[fcst_col].values): the i-th value of one array meets the i-th of
\* the other; here, the dates the two values stand for
PairedByPosition(test, fcst) ==
  [i \in 1..Len(fcst) |-> [pred |-> fcst[i].date, actual |-> test[i].date]]

\* the metric values of a candidate that was evaluated
Evaluated == [k \in 1..Len(fcst_competition_metrics) |-> Float("fin", 0, NoQuotient)]

\* no call of model.predict was made yet
NoPredictCall == [n_days |-> 0, fcst_first_date |-> 0, future_only |-> FALSE]

NewIteration ==
  [fitted |-> FALSE, artifact |-> FALSE, has_pred |-> FALSE, pred |-> <<>>,
   has_evals |-> FALSE, pairs |-> <<>>, steps |-> <<>>, predict_call |-> NoPredictCall]

\* the statement of the loop body that is executed now
Did(locals, step) == [locals EXCEPT !.steps = Append(@, step)]

TrainIdle ==
  /\ models_config = <<>>
  /\ models = <<>>
  /\ t_pc = "idle"
  /\ t_idx = 0
  /\ cur = NewIteration
  /\ open_runs = {}
  /\ opens = {}
  /\ closes = <<>>
  /\ started = {}
  /\ raised_in = {}
  /\ handler_raised = 0
  /\ df_performances = <<>>
  /\ t_fatal = FALSE

\* training(), "Create experiment": a failure goes to the outer handler
training_get_experiment ==
  /\ t_pc = "idle"
  /\ \E ok \in BOOLEAN :
       /\ t_pc' = IF ok THEN "split" ELSE "done"
       /\ t_fatal' = ~ok
  /\ UNCHANGED <<models_config, models, t_idx, cur, open_runs, opens, closes,
                 started, raised_in, handler_raised, df_performances>>
  /\ UNCHANGED <<splitVars, predVars, deployVars, compVars, evalVars, concVars, backendVars>>

\* training(), "Train/Test split"
training_split ==
  /\ t_pc = "split"
  /\ TrainTestSplitCall
  /\ t_pc' = IF split_pc' = "raised" THEN "done" ELSE "create_models"
  /\ t_fatal' = (split_pc' = "raised")
  /\ UNCHANGED <<data, n_test, mlf_split>>
  /\ UNCHANGED <<models_config, models, t_idx, cur, open_runs, opens, closes,
                 started, raised_in, handler_raised, df_performances>>
  /\ UNCHANGED <<predVars, deployVars, compVars, evalVars, concVars, backendVars>>

\* training(), "Init all models" and the entry of the loop: models.items()
\* raises on the None of a failed create_all_models, which goes to the outer
\* handler
training_create_models ==
  /\ t_pc = "create_models"
  /\ LET created == create_all_models(models_config) IN
       /\ models' = created.rows
       /\ t_pc' = IF created.set THEN LoopNext(0, Len(models_config)) ELSE "done"
       /\ t_fatal' = ~created.set
       /\ snapshots' = [i \in 1..Len(created.rows) |->
                          IF created.rows[i] = "None" THEN NoSnapshot
                          ELSE Snapshot(train_data, test_data)]
  /\ t_idx' = 0
  /\ UNCHANGED <<models_config, cur, open_runs, opens, closes, started,
                 raised_in, handler_raised, df_performances>>
  /\ UNCHANGED <<splitVars, predVars, deployVars, compVars, evalVars, concVars>>

\* "Start run" of the next configuration
training_start_run ==
  /\ t_pc = "start_run"
  /\ t_idx' = t_idx + 1
  /\ started' = started \cup {t_idx + 1}
  /\ cur' = Did(NewIteration, "start_run")
  /\ \E ok \in BOOLEAN :
       /\ open_runs' = IF ok THEN open_runs \cup {t_idx + 1} ELSE open_runs
       /\ opens' = IF ok THEN opens \cup {t_idx + 1} ELSE opens
       /\ raised_in' = IF ok THEN raised_in ELSE raised_in \cup {t_idx + 1}
       /\ t_pc' = TrainStep(~ok, "preprocess")
  /\ UNCHANGED <<models_config, models, closes, handler_raised, df_performances,
                 t_fatal>>
  /\ UNCHANGED <<splitVars, predVars, deployVars, compVars, evalVars, concVars, backendVars>>

\* the frame of a step that touches the iteration's locals only
StepFrame ==
  /\ UNCHANGED <<models_config, models, t_idx, open_runs, opens, closes, started,
                 handler_raised, df_performances, t_fatal>>
  /\ UNCHANGED <<splitVars, predVars, deployVars, compVars, evalVars, concVars, backendVars>>

Raised(r) == IF r = "raised" THEN raised_in \cup {t_idx} ELSE raised_in

\* model.preprocess()
training_preprocess ==
  /\ t_pc = "preprocess"
  /\ \E fails \in BOOLEAN :
       LET r == BackendCall(models[t_idx], fails) IN
         /\ t_pc' = TrainStep(r = "raised", "log_params")
         /\ raised_in' = Raised(r)
         /\ cur' = Did(cur, "preprocess")
         /\ IF ModelerHeld = "copy"
            THEN /\ snapshots' = [snapshots EXCEPT ![t_idx] =
                                    Preprocess(models[t_idx], @, fails)]
                 /\ UNCHANGED <<train_data, test_data>>
            ELSE LET written == Preprocess(models[t_idx],
                                           Snapshot(train_data, test_data), fails)
                 IN  /\ train_data' = written.train_data
                     /\ test_data' = written.test_data
                     /\ snapshots' = [i \in DOMAIN snapshots |->
                                        IF snapshots[i] = NoSnapshot THEN NoSnapshot
                                        ELSE written]
  /\ UNCHANGED <<data, n_test, split_pc, split_log, mlf_split>>
  /\ UNCHANGED <<models_config, models, t_idx, open_runs, opens, closes,
                 started, handler_raised, df_performances, t_fatal>>
  /\ UNCHANGED <<predVars, deployVars, compVars, evalVars, concVars>>

\* model.log_params(client, run_id)
training_log_params ==
  /\ t_pc = "log_params"
  /\ \E fails \in BOOLEAN :
       LET r == BackendCall(models[t_idx], fails) IN
         /\ t_pc' = TrainStep(r = "raised", "fit")
         /\ raised_in' = Raised(r)
  /\ cur' = Did(cur, "log_params")
  /\ StepFrame

\* model.fit()
training_fit ==
  /\ t_pc = "fit"
  /\ \E fails \in BOOLEAN :
       LET r == FitCall(models[t_idx], snapshots[t_idx], fails) IN
         /\ t_pc' = TrainStep(r = "raised", "log_model")
         /\ raised_in' = Raised(r)
         /\ cur' = [Did(cur, "fit") EXCEPT !.fitted = (r = "ok")]
  /\ StepFrame

\* model.log_model(artifact_path="model")
training_log_model ==
  /\ t_pc = "log_model"
  /\ \E fails \in BOOLEAN :
       LET r == BackendCall(models[t_idx], fails) IN
         /\ t_pc' = TrainStep(r = "raised", "predict")
         /\ raised_in' = Raised(r)
         /\ cur' = [Did(cur, "log_model") EXCEPT !.artifact = (r = "ok")]
  /\ StepFrame

\* "Make predictions": self.test_data[...] raises a TypeError while test_data
\* is None
training_predict ==
  /\ t_pc = "predict"
  /\ \E fails \in BOOLEAN :
       LET r == IF ~test_data.set THEN "raised"
                ELSE BackendCall(models[t_idx], fails) IN
         /\ t_pc' = TrainStep(r = "raised", "evaluate")
         /\ raised_in' = Raised(r)
         /\ cur' = [Did(cur, "predict") EXCEPT
                       !.has_pred = (r = "ok"),
                       !.predict_call = IF test_data.set
                                        THEN PredictCall(test_data.rows, n_test)
                                        ELSE NoPredictCall,
                       !.pred = IF r = "ok"
                                THEN TrainingPredict(data, PredictCall(test_data.rows, n_test))
                                ELSE <<>>]
  /\ StepFrame

\* "Compute rmse and mape": pred[...] raises a TypeError when predict returned
\* None; evaluate_model logs its own failure and returns None
training_evaluate ==
  /\ t_pc = "evaluate"
  /\ \E fails \in BOOLEAN :
       LET r == IF ~cur.has_pred THEN "raised"
                ELSE IF fails \/ Len(cur.pred) # Len(test_data.rows) THEN "swallowed"
                ELSE "ok" IN
         /\ t_pc' = TrainStep(r = "raised", "insert")
         /\ raised_in' = Raised(r)
         /\ cur' = [Did(cur, "evaluate") EXCEPT !.has_evals = (r = "ok"),
                 !.pairs = IF r = "ok"
                           THEN PairedByPosition(test_data.rows, cur.pred)
                           ELSE <<>>]
  /\ StepFrame

\* self.df_performances.loc[model_name] = [...]: None.values() raises an
\* AttributeError; a row of the wrong length raises a ValueError
training_insert ==
  /\ t_pc = "insert"
  /\ \E fails \in BOOLEAN :
       LET r == IF ~cur.has_evals \/ fails THEN "raised" ELSE "ok" IN
         /\ t_pc' = TrainStep(r = "raised", "log_metric")
         /\ raised_in' = Raised(r)
         /\ df_performances' =
              IF r = "ok"
              THEN SetRow(df_performances,
                          TrainedRow(models_config[t_idx], t_idx, cur.fitted,
                                     cur.artifact, Evaluated))
              ELSE df_performances
  /\ cur' = Did(cur, "insert")
  /\ UNCHANGED <<models_config, models, t_idx, open_runs, opens, closes,
                 started, handler_raised, t_fatal>>
  /\ UNCHANGED <<splitVars, predVars, deployVars, compVars, evalVars, concVars, backendVars>>

\* self.ml_flower.client.log_metric(run_id, key, val)
training_log_metric ==
  /\ t_pc = "log_metric"
  /\ \E ok \in BOOLEAN :
       /\ t_pc' = TrainStep(~ok, "end_run")
       /\ raised_in' = IF ok THEN raised_in ELSE raised_in \cup {t_idx}
  /\ cur' = Did(cur, "log_metric")
  /\ StepFrame

\* self.ml_flower.end_run() of the try block
training_end_run ==
  /\ t_pc = "end_run"
  /\ \E ok \in BOOLEAN :
       /\ closes' = IF ok THEN EndRunCloses(closes, open_runs) ELSE closes
       /\ open_runs' = IF ok THEN {} ELSE open_runs
       /\ raised_in' = IF ok THEN raised_in ELSE raised_in \cup {t_idx}
       /\ t_pc' = TrainStep(~ok, LoopNext(t_idx, Len(models)))
  /\ cur' = Did(cur, "end_run")
  /\ UNCHANGED <<models_config, models, t_idx, opens, started,
                 handler_raised, df_performances, t_fatal>>
  /\ UNCHANGED <<splitVars, predVars, deployVars, compVars, evalVars, concVars, backendVars>>

\* the inner handler: its end_run is not in a try block of its own, so a
\* failure of it reaches the outer handler, which ends training()
training_handler ==
  /\ t_pc = "handler"
  /\ \E ok \in BOOLEAN :
       IF ~InnerHandlerEndsRun
       THEN /\ t_pc' = LoopNext(t_idx, Len(models))
            /\ UNCHANGED <<closes, open_runs, handler_raised, t_fatal>>
       ELSE /\ closes' = IF ok THEN EndRunCloses(closes, open_runs) ELSE closes
            /\ open_runs' = IF ok THEN {} ELSE open_runs
            /\ handler_raised' = IF ok THEN handler_raised ELSE t_idx
            /\ t_fatal' = ~ok
            /\ t_pc' = IF ok THEN LoopNext(t_idx, Len(models)) ELSE "done"
  /\ cur' = IF InnerHandlerEndsRun THEN Did(cur, "end_run") ELSE cur
  /\ UNCHANGED <<models_config, models, t_idx, opens, started, raised_in,
                 df_performances>>
  /\ UNCHANGED <<splitVars, predVars, deployVars, compVars, evalVars, concVars, backendVars>>

\* ------------------------------------------------------------ competition
\* the name of the i-th configuration
ModelName(i) == "prophet_" \o ToString(i)

RECURSIVE SumOf(_)
SumOf(s) == IF s = <<>> THEN 0 ELSE Head(s) + SumOf(Tail(s))

\* the values evaluate_model yields: finite, or infinite (mape on an actual 0)
MetricValues == {Float("fin", x, NoQuotient) : x \in 0..MaxMetric}
                  \cup {Float("pinf", 0, NoQuotient)}

MetricRows == [1..Len(fcst_competition_metrics) -> MetricValues]

\* df_performances[metric]
Column(df, k) == [i \in 1..Len(df) |-> df[i].metrics[k]]

\* df_performances[metric].mean() / df_performances[metric].std(): NaN when a
\* value is infinite (the std is) and when there are fewer than two rows (the
\* std is), a division by the zero std of a constant column otherwise
MeanOverStd(col) ==
  LET n == Len(col)
      S == SumOf([i \in 1..n |-> col[i].num])
      Q == SumOf([i \in 1..n |-> col[i].num * col[i].num])
      dev == n * Q - S * S
  IN  IF \E i \in 1..n : col[i].kind # "fin" THEN Quotient("nan", 0, n, 0)
      ELSE IF n < 2 THEN Quotient("nan", S, n, dev)
      ELSE IF dev = 0
        THEN Quotient(IF S > 0 THEN "pinf" ELSE IF S < 0 THEN "ninf" ELSE "nan",
                      S, n, dev)
      ELSE Quotient("fin", S, n, dev)

\* lambda x: x - mean / std
Standardize(x, q) ==
  LET kind == IF x.kind = "nan" \/ q.kind = "nan" THEN "nan"
              ELSE IF q.kind = "fin" THEN x.kind
              ELSE IF x.kind = q.kind THEN "nan"
              ELSE IF x.kind = "fin"
                THEN (IF q.kind = "pinf" THEN "ninf" ELSE "pinf")
              ELSE x.kind
  IN  Float(kind, x.num, q)

\* "Standardize all metric columns"
StandardizeAll(df) ==
  [i \in 1..Len(df) |->
     [df[i] EXCEPT !.metrics =
        [k \in DOMAIN df[i].metrics |->
           Standardize(df[i].metrics[k], MeanOverStd(Column(df, k)))]]]

\* the weights taken from the last to the first
Reversed(weights, k) == weights[Len(weights) + 1 - k]

\* np.array of the metrics times np.array of the weights: element by element
Positional(weights, k) == weights[k]

\* the k-th metric of the row times the k-th weight; 0 * inf is NaN
Weighted(row, weights, k) ==
  LET x == row.metrics[k]
      w == Positional(weights, k)
  IN  IF x.kind = "fin" THEN Score("fin", w * x.num, 1)
      ELSE IF x.kind = "nan" \/ w = 0 THEN Score("nan", 0, 1)
      ELSE IF w > 0 THEN Score(x.kind, 0, 1)
      ELSE Score(IF x.kind = "pinf" THEN "ninf" ELSE "pinf", 0, 1)

\* the sum of two floats
Plus(a, b) ==
  IF a.kind = "nan" \/ b.kind = "nan" THEN Score("nan", 0, 1)
  ELSE IF a.kind = "fin" /\ b.kind = "fin" THEN Score("fin", a.num + b.num, 1)
  ELSE IF a.kind = "fin" THEN Score(b.kind, 0, 1)
  ELSE IF b.kind = "fin" \/ a.kind = b.kind THEN Score(a.kind, 0, 1)
  ELSE Score("nan", 0, 1)

RECURSIVE WeightedSum(_, _, _)
WeightedSum(row, weights, k) ==
  IF k = 0 THEN Score("fin", 0, 1)
  ELSE Plus(WeightedSum(row, weights, k - 1), Weighted(row, weights, k))

\* "Compute weighted average of all metrics" of one row. A finite score is
\* kept as the weighted sum of the values before standardization (num) and
\* the sum of the weights (den): the score is num / den minus the weighted
\* average of the quotients of the columns, which is the same for every row.
\* The weights have a positive sum.
ErrorAvg(row, weights) ==
  LET total == WeightedSum(row, weights, Len(fcst_competition_metrics))
  IN  Score(total.kind, total.num, SumOf(weights))

WithErrorAvg(df, weights) ==
  [i \in 1..Len(df) |-> [df[i] EXCEPT !.error_avg = ErrorAvg(df[i], weights)]]

\* a < b for two scores of one table
Less(a, b) ==
  LET rank(s) == IF s.kind = "ninf" THEN 0 ELSE IF s.kind = "fin" THEN 1 ELSE 2
  IN  /\ a.kind # "nan" /\ b.kind # "nan"
      /\ \/ rank(a) < rank(b)
         \/ a.kind = "fin" /\ b.kind = "fin" /\ a.num < b.num

\* Series.argmin(): NaN is skipped (it is filled with +inf), the first
\* position of the minimum is returned; -1 when every value is NaN, which
\* iloc reads as the last row
ArgMin(col) ==
  LET filled == [i \in 1..Len(col) |->
                   IF col[i].kind = "nan" THEN Score("pinf", 0, col[i].den) ELSE col[i]]
  IN  IF \A i \in 1..Len(col) : col[i].kind = "nan" THEN Len(col)
      ELSE CHOOSE i \in 1..Len(col) :
             /\ \A j \in 1..Len(col) : ~Less(filled[j], filled[i])
             /\ \A j \in 1..(i - 1) : Less(filled[i], filled[j])

\* the steps of prod_model_eval that can fail: loading the Production model,
\* wrapping it (model_generation returns None), reading test_data (None after
\* a failed split), predict and evaluate_model (both return None on failure)
ProdEvalSteps == {"load_model", "model_generation", "test_data", "predict",
                  "evaluate_model"}

\* the metrics of a row whose evaluation did not take place
Unevaluated == [k \in 1..Len(fcst_competition_metrics) |-> Float("nan", 0, NoQuotient)]

\* a prod_model_eval that writes its row before the steps that can fail
ProdEvalInsertFirst(df, failed, row) == SetRow(df, row)

\* prod_model_eval: the row is written by the last statement of the try block
ProdEvalInsert(df, failed, row) == IF failed THEN df ELSE SetRow(df, row)

\* a handler that lets the exception out
HandlerReraises(raised) == IF raised THEN "raised" ELSE "returned"

\* except Exception: the failure is logged and the method returns
HandlerLogs(raised) == "returned"

CompIdle ==
  /\ fcst_competition_metric_weights = <<1, 1>>
  /\ winning_model_name = "None"
  /\ pe_pc = "idle"
  /\ pe_log = "none"
  /\ c_pc = "idle"
  /\ c_log = "none"
  /\ df_entered = <<>>

\* the training state around the table, which these methods leave alone
TableFrame ==
  UNCHANGED <<models_config, models, t_pc, t_idx, cur, open_runs, opens, closes,
              started, raised_in, handler_raised, t_fatal>>

\* Modeler.prod_model_eval
prod_model_eval ==
  /\ t_pc = "done"
  /\ pe_pc = "idle"
  /\ c_pc = "idle"
  /\ \/ \E step \in ProdEvalSteps :
          /\ pe_log' = step
          /\ df_performances' =
               ProdEvalInsert(df_performances, TRUE,
                              PerformanceRow("prod_model", 0, Unevaluated))
     \/ \E m \in MetricRows :
          /\ pe_log' = "none"
          /\ df_performances' =
               ProdEvalInsert(df_performances, FALSE,
                              PerformanceRow("prod_model", 0, m))
  /\ pe_pc' = HandlerLogs(pe_log' # "none")
  /\ UNCHANGED <<fcst_competition_metric_weights, winning_model_name, c_pc, c_log,
                 df_entered>>
  /\ TableFrame
  /\ UNCHANGED <<splitVars, predVars, deployVars, evalVars, concVars, backendVars>>

\* Modeler.competition: on an empty table nothing is standardized and argmin
\* raises; on any other table the three steps complete
competition ==
  /\ c_pc = "idle"
  /\ df_entered' = df_performances
  /\ LET scored == WithErrorAvg(StandardizeAll(df_performances),
                                fcst_competition_metric_weights)
         raised == Len(df_performances) = 0
     IN  /\ df_performances' = scored
         /\ winning_model_name' =
              IF raised THEN winning_model_name
              ELSE scored[ArgMin([i \in 1..Len(scored) |-> scored[i].error_avg])].model_name
         /\ c_log' = IF raised THEN "error" ELSE "none"
         /\ c_pc' = HandlerLogs(raised)
  /\ UNCHANGED <<fcst_competition_metric_weights, pe_pc, pe_log>>
  /\ TableFrame
  /\ UNCHANGED <<splitVars, predVars, deployVars, evalVars, concVars, backendVars>>

\* ---------------------------------------------------------- evaluate_model
\* a metric name is the sequence of its characters
Rmse == <<"r", "m", "s", "e">>

Mape == <<"m", "a", "p", "e">>

\* the names a caller may request
MetricNames ==
  {Rmse, Mape,
   <<"R", "M", "S", "E">>,
   <<"R", "m", " ", "s", "e">>,
   <<"M", "A", "P", "E", " ">>,
   <<"m", "a", "e">>,
   <<" ">>}

\* str.lower() on the letters that occur in the names
lower(name) ==
  LET upper == <<"A", "E", "M", "P", "R", "S">>
      small == <<"a", "e", "m", "p", "r", "s">>
  IN  [i \in 1..Len(name) |->
         IF \E j \in 1..Len(upper) : upper[j] = name[i]
         THEN small[CHOOSE j \in 1..Len(upper) : upper[j] = name[i]]
         ELSE name[i]]

NotSpace(c) == c # " "

\* metric.lower().replace(" ", "")
Normalize(name) == SelectSeq(lower(name), NotSpace)

\* kronos: supported_metrics = ["rmse", "mape"]
supported_metrics == {Rmse, Mape}

\* mlf_project: supported_metrics = ['rmse']
mlf_supported_metrics == {Rmse}

\* a mapping keyed by the name as the caller wrote it
KeyAsRequested(requested, normal) == requested

\* out[metric] = value, where metric has been rebound to its normalised form
Key(requested, normal) == normal

\* dict assignment: a key already present keeps its position
DictSet(out, key, value) ==
  IF \E i \in 1..Len(out) : out[i].key = key
  THEN [i \in 1..Len(out) |->
          IF out[i].key = key THEN [key |-> key, value |-> value] ELSE out[i]]
  ELSE Append(out, [key |-> key, value |-> value])

\* the loop of kronos' evaluate_model: an unsupported name is logged and
\* skipped, a supported one is stored with the value of its formula (the
\* formula is named by the normalised name)
RECURSIVE EvaluateMetrics(_, _)
EvaluateMetrics(names, out) ==
  IF names = <<>> THEN out
  ELSE LET normal == Normalize(Head(names))
       IN  EvaluateMetrics(Tail(names),
             IF normal \in supported_metrics
             THEN DictSet(out, Key(Head(names), normal), normal)
             ELSE out)

\* mlf_project's evaluate_model, one name: the rmse value or None
MlfEvaluate(name) ==
  IF Normalize(name) \in mlf_supported_metrics
  THEN Some(Normalize(name))
  ELSE None

EvalIdle ==
  /\ metrics = <<>>
  /\ ev_pc = "idle"
  /\ ev_log = "none"
  /\ ev_out = None
  /\ mlf_eval = [metric |-> <<>>, status |-> "idle", out |-> None]

\* Modeler.evaluate_model: the whole body is in one try block, so the failure
\* of a formula (arrays that do not broadcast) is logged and None is returned
evaluate_model ==
  /\ ev_pc = "idle"
  /\ \E formula_fails \in BOOLEAN :
       LET raised == formula_fails /\ EvaluateMetrics(metrics, <<>>) # <<>>
       IN  /\ ev_log' = IF raised THEN "error" ELSE "none"
           /\ ev_out' = IF raised THEN None ELSE Some(EvaluateMetrics(metrics, <<>>))
           /\ ev_pc' = HandlerLogs(raised)
  /\ UNCHANGED <<metrics, mlf_eval>>
  /\ UNCHANGED <<splitVars, predVars, deployVars, trainVars, compVars, concVars, backendVars>>

\* mlf_project's evaluate_model: no try block, no raise on a name
mlf_evaluate_model ==
  /\ mlf_eval.status = "idle"
  /\ \E name \in MetricNames :
       mlf_eval' = [metric |-> name, status |-> "returned", out |-> MlfEvaluate(name)]
  /\ UNCHANGED <<metrics, ev_pc, ev_log, ev_out>>
  /\ UNCHANGED <<splitVars, predVars, deployVars, trainVars, compVars, concVars, backendVars>>

\* ------------------------------------------------------- concurrent deploy
\* a second invocation of deploy() for the same key, by another Modeler on the
\* same registry: deploy() takes no lock and the Modeler holds none, so its
\* requests interleave freely with those of the first. Its winner is a
\* trained model whose configuration holds model_flavor.
OtherIdle == other = [pc |-> "idle", version |-> 0, status |-> "unset",
                      loaded |-> 0, promoted |-> FALSE]

OtherFrame ==
  /\ UNCHANGED <<n_unit_test, winner, d_pc, d_count, d_reqs, d_version,
                 unit_test_status, d_loaded, prod_before>>
  /\ UNCHANGED <<splitVars, predVars, trainVars, compVars, evalVars, backendVars>>

\* deploy(), "Register the model"
other_deploy_register ==
  /\ other.pc = "register"
  /\ \E ok \in BOOLEAN :
       /\ registry' = IF ok THEN RegisterModel(registry) ELSE registry
       /\ other' = [other EXCEPT !.version = IF ok THEN Len(registry) + 1 ELSE 0,
                                 !.pc = DeployStep(ok, "set_tag")]
  /\ UNCHANGED tags
  /\ OtherFrame

\* deploy(), "Set model flavor tag"
other_deploy_set_tag ==
  /\ other.pc = "set_tag"
  /\ \E ok \in BOOLEAN :
       /\ tags' = IF ok THEN tags \cup {other.version} ELSE tags
       /\ other' = [other EXCEPT !.pc = DeployStep(ok, "promote_staging")]
  /\ UNCHANGED registry
  /\ OtherFrame

\* deploy(), "Transition to staging stage and archive the last one"
other_deploy_promote_staging ==
  /\ other.pc = "promote_staging"
  /\ \E ok \in BOOLEAN :
       /\ registry' = IF ok
                      THEN PromoteModel(registry, other.version, "Staging",
                                        ArchiveOnStaging)
                      ELSE registry
       /\ other' = [other EXCEPT !.pc = DeployStep(ok, "unit_test")]
  /\ UNCHANGED tags
  /\ OtherFrame

\* unit_test(model_version.name, model_version.current_stage)
other_unit_test ==
  /\ other.pc = "unit_test"
  /\ \E load_fails \in BOOLEAN, count \in 0..(MaxUnitTest + 1) :
       LET loaded == IF load_fails THEN 0 ELSE LoadModel(registry, "Staging")
           status == IF loaded = 0 THEN "None"
                     ELSE UnitTestCheck(count, n_unit_test)
       IN  other' = [other EXCEPT !.loaded = loaded,
                                  !.status = status,
                                  !.pc = IF UnitTestGate(status)
                                         THEN "promote_production"
                                         ELSE "returned"]
  /\ UNCHANGED <<registry, tags>>
  /\ OtherFrame

\* deploy(), "Deploying model to Production"
other_deploy_promote_production ==
  /\ other.pc = "promote_production"
  /\ \E ok \in BOOLEAN :
       /\ registry' = IF ok
                      THEN PromoteModel(registry, other.version, "Production",
                                        ArchiveOnProduction)
                      ELSE registry
       /\ other' = [other EXCEPT !.promoted = ok,
                                 !.pc = DeployStep(ok, "returned")]
  /\ UNCHANGED tags
  /\ OtherFrame

\* --------------------------------------------------------- specifications
InitSplit ==
  /\ data \in DataFrames(MaxRows, 1..MaxRows, Vals)
  /\ n_test \in 0..MaxNTest
  /\ SplitIdle
  /\ PredInputsIdle /\ PredIdle
  /\ DeployIdle
  /\ TrainIdle
  /\ CompIdle
  /\ EvalIdle
  /\ OtherIdle
  /\ BackendIdle

NextSplit ==
  \/ train_test_split
  \/ mlf_train_test_split

SpecSplit == InitSplit /\ [][NextSplit]_vars

InitPrediction ==
  /\ data \in DataFrames(PredMaxRows, 1..PredMaxDate, Vals) \ {<<>>}
  /\ n_test = 1
  /\ SplitIdle
  /\ fcst_first_date \in 1..(PredMaxDate + MaxGap)
  /\ fcst_horizon \in 0..MaxHorizon
  /\ future_only \in BOOLEAN
  /\ PredIdle
  /\ DeployIdle
  /\ TrainIdle
  /\ CompIdle
  /\ EvalIdle
  /\ OtherIdle
  /\ BackendIdle

NextPrediction == prediction

SpecPrediction == InitPrediction /\ [][NextPrediction]_vars

\* the frames training() is given: k rows, one per day
TrainingFrames == {[i \in 1..k |-> [date |-> i, y |-> 2]] : k \in 1..TrainMaxRows}

\* a dict of at most n configurations: its keys are distinct
Injective(names, n) ==
  {c \in UNION {[1..k -> names] : k \in 0..n} :
     \A i, j \in DOMAIN c : c[i] = c[j] => i = j}

InitTraining ==
  /\ data \in TrainingFrames
  /\ n_test \in 1..MaxNTest
  /\ SplitIdle
  /\ PredInputsIdle /\ PredIdle
  /\ DeployIdle
  /\ models_config \in Injective(ConfigNames \cup {BadKey}, MaxModels)
  /\ models = <<>>
  /\ t_pc = "idle"
  /\ t_idx = 0
  /\ cur = NewIteration
  /\ open_runs = {}
  /\ opens = {}
  /\ closes = [i \in 1..Len(models_config) |-> 0]
  /\ started = {}
  /\ raised_in = {}
  /\ handler_raised = 0
  /\ df_performances = <<>>
  /\ t_fatal = FALSE
  /\ CompIdle
  /\ EvalIdle
  /\ OtherIdle
  /\ BackendIdle

NextTraining ==
  \/ training_get_experiment
  \/ training_split
  \/ training_create_models
  \/ training_start_run
  \/ training_preprocess
  \/ training_log_params
  \/ training_fit
  \/ training_log_model
  \/ training_predict
  \/ training_evaluate
  \/ training_insert
  \/ training_log_metric
  \/ training_end_run
  \/ training_handler
  \/ prod_model_eval

SpecTraining == InitTraining /\ [][NextTraining]_vars

InitDeploy ==
  /\ data = <<[date |-> 1, y |-> 0]>>
  /\ n_test = 1
  /\ SplitIdle
  /\ PredInputsIdle /\ PredIdle
  /\ registry = <<>>
  /\ tags = {}
  /\ n_unit_test \in 1..MaxUnitTest
  /\ winner = "none"
  /\ d_pc = "idle"
  /\ d_count = 0
  /\ d_reqs = <<>>
  /\ d_version = 0
  /\ unit_test_status = "unset"
  /\ d_loaded = 0
  /\ prod_before = {}
  /\ TrainIdle
  /\ CompIdle
  /\ EvalIdle
  /\ OtherIdle
  /\ BackendIdle

NextDeploy ==
  \/ deploy_lookup
  \/ deploy_register
  \/ deploy_set_tag
  \/ deploy_promote_staging
  \/ unit_test
  \/ deploy_promote_production

SpecDeploy == InitDeploy /\ [][NextDeploy]_vars

\* the weights given to competition(), one per metric
WeightVectors == {<<1, 1>>, <<2, 1>>, <<0, 1>>}

\* the tables training() leaves: one row per recorded configuration
TrainedTables ==
  UNION {{[i \in 1..n |-> PerformanceRow(ModelName(i), i, m[i])] :
            m \in [1..n -> MetricRows]} : n \in 0..MaxModels}

InitCompetition ==
  /\ data = <<[date |-> 1, y |-> 0]>>
  /\ n_test = 1
  /\ SplitIdle
  /\ PredInputsIdle /\ PredIdle
  /\ DeployIdle
  /\ models_config = <<>>
  /\ models = <<>>
  /\ t_pc = "done"
  /\ t_idx = 0
  /\ cur = NewIteration
  /\ open_runs = {}
  /\ opens = {}
  /\ closes = <<>>
  /\ started = {}
  /\ raised_in = {}
  /\ handler_raised = 0
  /\ t_fatal = FALSE
  /\ df_performances \in TrainedTables
  /\ fcst_competition_metric_weights \in WeightVectors
  /\ winning_model_name = "None"
  /\ pe_pc = "idle"
  /\ pe_log = "none"
  /\ c_pc = "idle"
  /\ c_log = "none"
  /\ df_entered = <<>>
  /\ EvalIdle
  /\ OtherIdle
  /\ BackendIdle

NextCompetition ==
  \/ prod_model_eval
  \/ competition

SpecCompetition == InitCompetition /\ [][NextCompetition]_vars

\* the tables of a cycle: one or more trained rows with finite metrics
CycleTables ==
  {t \in TrainedTables :
     /\ Len(t) >= 1
     /\ \A i \in 1..Len(t), k \in 1..Len(fcst_competition_metrics) :
          t[i].metrics[k].kind = "fin" /\ (k > 1 => t[i].metrics[k].num = 0)}

\* one orchestration run after training(): prod_model_eval, competition and
\* deploy on the same Modeler
InitCycle ==
  /\ data = <<[date |-> 1, y |-> 0]>>
  /\ n_test = 1
  /\ SplitIdle
  /\ PredInputsIdle /\ PredIdle
  /\ DeployIdle
  /\ models_config = <<>>
  /\ models = <<>>
  /\ t_pc = "done"
  /\ t_idx = 0
  /\ cur = NewIteration
  /\ open_runs = {}
  /\ opens = {}
  /\ closes = <<>>
  /\ started = {}
  /\ raised_in = {}
  /\ handler_raised = 0
  /\ t_fatal = FALSE
  /\ df_performances \in CycleTables
  /\ CompIdle
  /\ EvalIdle
  /\ OtherIdle
  /\ BackendIdle

NextCycle ==
  \/ prod_model_eval
  \/ competition
  \/ deploy_lookup
  \/ deploy_register
  \/ deploy_set_tag
  \/ deploy_promote_staging
  \/ unit_test
  \/ deploy_promote_production

SpecCycle == InitCycle /\ [][NextCycle]_vars

InitEvaluate ==
  /\ data = <<[date |-> 1, y |-> 0]>>
  /\ n_test = 1
  /\ SplitIdle
  /\ PredInputsIdle /\ PredIdle
  /\ DeployIdle
  /\ TrainIdle
  /\ CompIdle
  /\ metrics \in UNION {[1..k -> MetricNames] : k \in 0..MaxMetrics}
  /\ ev_pc = "idle"
  /\ ev_log = "none"
  /\ ev_out = None
  /\ mlf_eval = [metric |-> <<>>, status |-> "idle", out |-> None]
  /\ OtherIdle
  /\ BackendIdle

NextEvaluate ==
  \/ evaluate_model
  \/ mlf_evaluate_model

SpecEvaluate == InitEvaluate /\ [][NextEvaluate]_vars

\* two deploys for one key: the second has found the row of its winner
InitConcurrentDeploy ==
  /\ data = <<[date |-> 1, y |-> 0]>>
  /\ n_test = 1
  /\ SplitIdle
  /\ PredInputsIdle /\ PredIdle
  /\ registry = <<>>
  /\ tags = {}
  /\ n_unit_test \in 1..MaxUnitTest
  /\ winner = "none"
  /\ d_pc = "idle"
  /\ d_count = 0
  /\ d_reqs = <<>>
  /\ d_version = 0
  /\ unit_test_status = "unset"
  /\ d_loaded = 0
  /\ prod_before = {}
  /\ TrainIdle
  /\ CompIdle
  /\ EvalIdle
  /\ other = [pc |-> "register", version |-> 0, status |-> "unset",
              loaded |-> 0, promoted |-> FALSE]
  /\ BackendIdle

NextConcurrentDeploy ==
  \/ deploy_lookup
  \/ deploy_register
  \/ deploy_set_tag
  \/ deploy_promote_staging
  \/ unit_test
  \/ deploy_promote_production
  \/ other_deploy_register
  \/ other_deploy_set_tag
  \/ other_deploy_promote_staging
  \/ other_unit_test
  \/ other_deploy_promote_production

SpecConcurrentDeploy == InitConcurrentDeploy /\ [][NextConcurrentDeploy]_vars

\* ------------------------------------------------------------------ claims
\* C1: a failure in one model's pipeline never aborts the batch: when
\* training() is over, every configuration that comes after one whose
\* pipeline raised has had its own pipeline started.
C1_FailureNeverAbortsBatch ==
  t_pc = "done" =>
    \A i \in raised_in, j \in 1..Len(models_config) : j > i => j \in started

\* what holds of the tracking runs at every point of training(): at most one
\* is open, it is the run of the current iteration, no run is closed twice and
\* none is closed that was not opened
RunsWellFormed ==
  /\ Cardinality(open_runs) <= 1
  /\ open_runs \subseteq (opens \cap {t_idx})
  /\ \A i \in DOMAIN closes :
       /\ closes[i] <= 1
       /\ closes[i] = 1 => i \in opens
       /\ i \in open_runs => closes[i] = 0
  /\ t_pc = "start_run" => open_runs = {}

LastRequest == d_reqs[Len(d_reqs)]

Requested(op) == \E i \in 1..Len(d_reqs) : d_reqs[i].op = op

\* C3: after a unit test that returned KO the new version is in Staging, no
\* promotion to Production is requested and the Production version is the one
\* of before the deploy.
C3_KoStaysInStaging ==
  unit_test_status = "KO" =>
    /\ d_pc = "returned"
    /\ registry[d_version] = "Staging"
    /\ ~Requested("promote_production")
    /\ VersionsIn(registry, "Production") = prod_before

\* C3's case: a KO while an earlier deploy's version is in Production
C3_Witness ==
  /\ unit_test_status = "KO"
  /\ d_pc = "returned"
  /\ prod_before # {}
  /\ d_loaded = d_version

\* C4 as stated: after a unit test that returned OK the new version is the
\* only Production version and the one of before is Archived.
C4_OkPromotes ==
  (d_pc = "returned" /\ unit_test_status = "OK") =>
    /\ VersionsIn(registry, "Production") = {d_version}
    /\ \A v \in prod_before : registry[v] = "Archived"

\* C4 as amended: after a unit test that returned OK the promotion to
\* Production is requested, and when that request succeeds the new version
\* is the only Production version and the one of before is Archived; when it
\* raises, Production is as before.
C4_OkPromotesWhenRequestSucceeds ==
  (d_pc = "returned" /\ unit_test_status = "OK") =>
    /\ LastRequest.op = "promote_production"
    /\ LastRequest.ok =>
         /\ VersionsIn(registry, "Production") = {d_version}
         /\ \A v \in prod_before : registry[v] = "Archived"
    /\ ~LastRequest.ok =>
         /\ VersionsIn(registry, "Production") = prod_before
         /\ registry[d_version] = "Staging"

\* C4's case: an OK, a promotion that succeeded, and a version that was in
\* Production before
C4_Witness ==
  /\ d_pc = "returned"
  /\ unit_test_status = "OK"
  /\ LastRequest.op = "promote_production" /\ LastRequest.ok
  /\ prod_before # {}
  /\ registry[d_version] = "Production"

RequestOrder(op) ==
  CASE op = "register" -> 1
    [] op = "set_tag" -> 2
    [] op = "promote_staging" -> 3
    [] op = "unit_test" -> 4
    [] op = "promote_production" -> 5

\* C5: the requests of a deploy() come in the order register, set tag,
\* promote to staging, unit test, promote to production, each at most once,
\* each only after all the earlier ones succeeded, and deploy() never raises.
C5_RequestsInOrderUntilFailure ==
  /\ d_pc # "raised"
  /\ \A i, j \in 1..Len(d_reqs) :
       i < j => /\ RequestOrder(d_reqs[i].op) < RequestOrder(d_reqs[j].op)
                /\ d_reqs[i].ok
  /\ (Len(d_reqs) > 0 /\ ~LastRequest.ok) => d_pc = "returned"

\* C5's case: the promotion to staging raised after two requests that
\* succeeded, and deploy() returned
C5_Witness ==
  /\ d_pc = "returned"
  /\ Len(d_reqs) = 3
  /\ d_reqs[1].ok /\ d_reqs[2].ok
  /\ LastRequest = Request("promote_staging", FALSE)

\* what the claims about the split say of a dataset d, a test size n and the
\* two frames produced
IsSplitOf(d, n, train, test) ==
  /\ Len(test) = n
  /\ Len(train) = Len(d) - n
  /\ Range(train) \cap Range(test) = {}
  /\ Range(train) \cup Range(test) = Range(d)
  /\ \A a \in Range(test), b \in Range(train) : a.date > b.date

\* C9: with rows >= 2*n_test (rows = 2*n_test included) train_test_split, in
\* both modelers, completes and yields as test set the n_test rows with the
\* latest dates and as training set the others: disjoint, covering the
\* dataset, of sizes n_test and rows - n_test.
C9_SplitIsPartition ==
  Len(data) >= 2 * n_test =>
    /\ split_pc # "idle" =>
         /\ split_pc = "returned"
         /\ train_data.set /\ test_data.set
         /\ IsSplitOf(data, n_test, train_data.rows, test_data.rows)
    /\ mlf_split.status # "idle" =>
         /\ mlf_split.status = "returned"
         /\ IsSplitOf(data, n_test, mlf_split.train, mlf_split.test)

\* C9's case: both splits done on a dataset of exactly 2*n_test rows
C9_Witness ==
  /\ n_test >= 1
  /\ Len(data) = 2 * n_test
  /\ split_pc = "returned"
  /\ mlf_split.status = "returned"

\* C10: with rows - n_test < n_test train_test_split does not complete
\* normally (it fails with the insufficient-data error) and train_data and
\* test_data keep the values they had.
C10_InsufficientDataFails ==
  Len(data) - n_test < n_test =>
    /\ split_pc # "idle" =>
         /\ split_pc = "raised"
         /\ train_data = None /\ test_data = None
    /\ mlf_split.status # "idle" => mlf_split.status = "raised"

\* C6: prediction() never propagates a failure to its caller.
C6_PredictionNeverRaises == p_pc # "raised"

\* the last observed day of the claims about the fallback: the greatest date
\* strictly before fcst_first_date, and the value observed on it
HistoryDates == {r.date : r \in {q \in Range(data) : q.date < fcst_first_date}}

LastDay == CHOOSE d \in HistoryDates : \A e \in HistoryDates : e <= d

ValueOn(d) == (CHOOSE r \in Range(data) : r.date = d).y

\* C7: the fallback returns, with future_only, exactly fcst_horizon rows for
\* the consecutive days fcst_first_date .. fcst_first_date + fcst_horizon - 1
\* and, without it, one row per day from D+1 to that same last day, each with
\* the value max(V, 0), D being the last observed day and V its value.
C7_FallbackRows ==
  (p_pc = "returned" /\ p_path = "fallback") =>
    LET start == IF future_only THEN fcst_first_date ELSE LastDay + 1
        last == fcst_first_date + fcst_horizon - 1
    IN  /\ HistoryDates # {}
        /\ Len(pred) = last - start + 1
        /\ \A i \in 1..Len(pred) :
             /\ pred[i].date = start + i - 1
             /\ pred[i].fcst = Max(ValueOn(LastDay), 0)

\* C7's case: fcst_first_date = D+3, fcst_horizon = 5, future_only, a negative
\* last value: the fallback returned the five days D+3..D+7
C7_Witness ==
  /\ p_pc = "returned" /\ p_path = "fallback"
  /\ future_only /\ fcst_horizon = 5
  /\ HistoryDates # {}
  /\ fcst_first_date = LastDay + 3
  /\ ValueOn(LastDay) < 0
  /\ Len(data) > 1 /\ data[Len(data)].date # LastDay
  /\ [i \in 1..Len(pred) |-> pred[i].date] = [i \in 1..5 |-> LastDay + 2 + i]

\* C8: every forecast value prediction() returns is >= 0 on both paths: a
\* negative value is replaced by 0 and the others are returned unchanged.
C8_ForecastNonNegative ==
  p_pc = "returned" =>
    /\ Len(pred) = Len(p_raw)
    /\ \A i \in 1..Len(pred) :
         /\ pred[i].fcst >= 0
         /\ pred[i].date = p_raw[i].date
         /\ p_raw[i].fcst >= 0 => pred[i].fcst = p_raw[i].fcst
         /\ p_raw[i].fcst < 0 => pred[i].fcst = 0

\* C8's case: the production model answered with a negative and a positive
\* value
C8_Witness ==
  /\ p_pc = "returned" /\ p_path = "primary"
  /\ \E i, j \in 1..Len(pred) :
       /\ p_raw[i].fcst < 0 /\ pred[i].fcst = 0
       /\ p_raw[j].fcst > 0 /\ pred[j].fcst = p_raw[j].fcst

\* the batch setup of training() failed: the experiment could not be obtained,
\* the split failed for insufficient data, or the models could not be created
SetupFailed ==
  \/ t_fatal /\ handler_raised = 0
  \/ split_log = "error"

\* C11: when the batch setup of training() fails, the whole cycle aborts: no
\* pipeline is started, no tracking run is opened and no performance row is
\* added.
C11_SetupFailureAbortsCycle ==
  SetupFailed => started = {} /\ opens = {} /\ df_performances = <<>>

\* the names of the rows of a table
RowNames(df) == {df[i].model_name : i \in 1..Len(df)}

\* C12: a failure in prod_model_eval() does not propagate and leaves the
\* performance table exactly as it was: no baseline row is written, the rows
\* of the trained models are unchanged, and a following competition() selects
\* its winner among the trained models.
C12_ProdEvalFailureLeavesTable ==
  /\ [][(pe_pc = "idle" /\ pe_pc' # "idle" /\ pe_log' # "none") =>
         (pe_pc' = "returned" /\ df_performances' = df_performances)]_vars
  /\ [](pe_log # "none" =>
         /\ "prod_model" \notin RowNames(df_performances)
         /\ (c_pc = "returned" /\ Len(df_entered) > 0) =>
              /\ winning_model_name \in RowNames(df_entered)
              /\ winning_model_name # "prod_model")

\* C12's case: the evaluation of the baseline failed and the competition that
\* followed chose the second of two trained models
C12_Witness ==
  /\ pe_pc = "returned" /\ pe_log = "predict"
  /\ c_pc = "returned"
  /\ Len(df_performances) = 2
  /\ winning_model_name = ModelName(2)

\* C13: after competition() on a non-empty table, winning_model_name names a
\* row whose composite score no other row is below, and the first such row in
\* table order when several rows share that score.
C13_WinnerIsFirstMinimum ==
  (c_pc = "returned" /\ Len(df_entered) > 0) =>
    \E i \in 1..Len(df_performances) :
      /\ df_performances[i].model_name = winning_model_name
      /\ \A j \in 1..Len(df_performances) :
           ~Less(df_performances[j].error_avg, df_performances[i].error_avg)
      /\ \A j \in 1..(i - 1) :
           Less(df_performances[i].error_avg, df_performances[j].error_avg)

\* the column is one competition() standardizes to finite values: at least two
\* rows, every value finite, not all equal
FiniteColumn(col) ==
  /\ Len(col) >= 2
  /\ \A i \in 1..Len(col) : col[i].kind = "fin"
  /\ \E i, j \in 1..Len(col) : col[i].num # col[j].num

C15_FailedCompetitionSelectsNothing ==
  /\ c_pc # "raised"
  /\ (c_pc = "returned" /\ c_log = "error") =>
       /\ winning_model_name = "None"
       /\ df_performances = df_entered

\* C15's case: competition() met an empty table, after the evaluation of the
\* baseline had failed, and logged the error
C15_Witness ==
  /\ pe_log # "none"
  /\ c_pc = "returned" /\ c_log = "error"
  /\ df_entered = <<>>

\* C16: when winning_model_name is None, deploy() makes no registry request
\* at all (no registration, tag, stage transition or unit-test load) and
\* returns without raising.
C16_NoWinnerNoRequest ==
  (winner = "none" /\ d_pc # "idle") =>
    /\ d_pc = "returned"
    /\ d_reqs = <<>>
    /\ d_version = 0
    /\ unit_test_status = "unset"
    /\ d_loaded = 0
    /\ VersionsIn(registry, "Production") = prod_before

\* C16's case: deploy() returned with no winner on a registry that an earlier
\* deploy had filled
C16_Witness ==
  /\ winner = "none" /\ d_pc = "returned"
  /\ d_count > 1
  /\ VersionsIn(registry, "Production") # {}

\* the configurations whose flavor is not recognized
UnknownFlavor ==
  {i \in 1..Len(models_config) :
     /\ models_config[i] # BadKey
     /\ model_generation(model_flavor(models_config[i])) = "None"}

\* the configurations that have a row in df_performances
Recorded ==
  {i \in 1..Len(models_config) :
     \E r \in 1..Len(df_performances) : df_performances[r].model_name = models_config[i]}

\* C17: a configuration whose flavor is not recognized is lost alone: it gets
\* no row, and every other configuration of the batch is still built, trained
\* and recorded as if the bad one were absent (when training() is over and
\* no pipeline other than those of the bad configurations raised, every
\* other configuration has its row).
C17_UnknownFlavorLostAlone ==
  (t_pc = "done" /\ ~SetupFailed) =>
    /\ UnknownFlavor \cap Recorded = {}
    /\ raised_in \subseteq UnknownFlavor =>
         (1..Len(models_config)) \ UnknownFlavor \subseteq Recorded

\* the keys of a mapping
Keys(out) == {out[i].key : i \in 1..Len(out)}

\* C18 as stated: evaluate_model never raises on an unsupported metric name,
\* and the keys of the mapping it returns are exactly the requested names
\* that are supported after lower-casing and removing spaces.
C18_KeysAreRequestedNames ==
  /\ ev_pc # "raised"
  /\ (ev_pc = "returned" /\ ev_out.set) =>
       Keys(ev_out.rows) =
         {name \in Range(metrics) : Normalize(name) \in {Rmse, Mape}}

\* C18, amended: evaluate_model never raises on an unsupported metric name;
\* the keys of the mapping kronos' evaluate_model returns are exactly the
\* lower-cased, space-free forms of the requested names that are rmse or
\* mape in that form, each with the value of its own formula, and
\* mlf_project's evaluate_model returns the rmse value for a name that reads
\* rmse in that form and None for any other.
C18_KeysAreNormalisedNames ==
  /\ ev_pc # "raised"
  /\ (ev_pc = "returned" /\ ev_log = "none") =>
       /\ ev_out.set
       /\ Keys(ev_out.rows) =
            {Normalize(name) : name \in Range(metrics)} \cap {Rmse, Mape}
       /\ \A i, j \in 1..Len(ev_out.rows) :
            /\ ev_out.rows[i].value = ev_out.rows[i].key
            /\ ev_out.rows[i].key = ev_out.rows[j].key => i = j
  /\ mlf_eval.status = "returned" =>
       mlf_eval.out = IF Normalize(mlf_eval.metric) = Rmse THEN Some(Rmse) ELSE None

\* C18's case: a name in capitals and an unsupported one were requested and
\* the mapping holds the one key rmse
C18_Witness ==
  /\ ev_pc = "returned" /\ ev_out.set
  /\ metrics = << <<"R", "M", "S", "E">>, <<"m", "a", "e">> >>
  /\ Keys(ev_out.rows) = {Rmse}
  /\ mlf_eval.status = "returned" /\ mlf_eval.metric = Mape /\ ~mlf_eval.out.set

\* C19: every version deploy() promotes to Staging has had the flavor tag
\* attached beforehand, whatever the configuration of the winning model
\* contains: a version that left the stage it was registered in carries the
\* tag.
C19_TaggedBeforeStaging ==
  \A v \in 1..Len(registry) : registry[v] # "None" => v \in tags

\* a deploy() invocation is between its entry and its return
InFlight(pc) == pc \notin {"idle", "returned"}

\* the version a deploy promoted to Production is the one its own unit test
\* loaded from Staging
PromotedWhatItTested ==
  /\ (d_reqs # <<>> /\ LastRequest = Request("promote_production", TRUE)) =>
       d_loaded = d_version
  /\ other.promoted => other.loaded = other.version

\* C20: the deploys of one key are serialized: at most one deploy() for the
\* key is in flight at any time, so no other deploy issues a registry request
\* between a deploy's registration and its last request, and the version a
\* deploy promotes to Production is the one its own unit test loaded from
\* Staging.
C20_DeploysSerialized ==
  /\ ~(InFlight(d_pc) /\ InFlight(other.pc))
  /\ PromotedWhatItTested

\* C21: each backend works on its own snapshot of the series: preprocess() of
\* a backend changes only that backend's copy of train_data and test_data; the
\* orchestrator's data, train_data and test_data and the data every other
\* backend holds are unchanged, so a backend not yet preprocessed still
\* holds the split as the orchestrator made it.
C21_PreprocessTouchesOwnSnapshot ==
  /\ [][t_pc = "preprocess" =>
         /\ data' = data /\ train_data' = train_data /\ test_data' = test_data
         /\ \A j \in DOMAIN snapshots :
              j # t_idx => snapshots'[j] = snapshots[j]]_vars
  /\ [](\A j \in DOMAIN snapshots :
          (j > t_idx /\ models[j] # "None") =>
            snapshots[j] = Snapshot(train_data, test_data))

\* C21's case: the first of two backends, a KRNSTensorflow, has turned its
\* frames into arrays while the second still holds the orchestrator's split
C21_Witness ==
  /\ t_pc = "log_params" /\ t_idx = 1
  /\ Len(models) = 2 /\ models[1] = "tensorflow" /\ models[2] # "None"
  /\ train_data.set /\ test_data.set
  /\ snapshots[1] = Snapshot(MetricArray(train_data), MetricArray(test_data))
  /\ snapshots[1] # snapshots[2]
  /\ snapshots[2] = Snapshot(train_data, test_data)

\* C22: the row names of df_performances are unique, and a row named
\* "prod_model" is always the baseline's (it has no run): a configuration that
\* is itself named "prod_model" has the leading token "prod", for which no
\* backend is built, so its pipeline never reaches the insertion.
C22_RowNamesUnique ==
  /\ \A i, j \in 1..Len(df_performances) :
       df_performances[i].model_name = df_performances[j].model_name => i = j
  /\ \A i \in 1..Len(df_performances) :
       df_performances[i].model_name = "prod_model" => df_performances[i].run_id = 0
  /\ \A i \in 1..Len(models_config) :
       (models_config[i] = "prod_model" /\ i \in started) => i \in raised_in \/ t_idx = i

\* C22's case: a batch holding a configuration named "prod_model" and a
\* supported one was trained, the pipeline of the former raised, and the
\* baseline was evaluated: two rows, the trained one and the baseline's
C22_Witness ==
  /\ t_pc = "done" /\ pe_pc = "returned" /\ pe_log = "none"
  /\ Len(models_config) = 2
  /\ models_config[1] = "prod_model" /\ 1 \in raised_in
  /\ Len(df_performances) = 2
  /\ df_performances[1].model_name = models_config[2]
  /\ df_performances[1].run_id = 2
  /\ df_performances[2].model_name = "prod_model"
  /\ df_performances[2].run_id = 0

\* the statements of the loop body of training(), as documented
PipelineOrder ==
  <<"start_run", "preprocess", "log_params", "fit", "log_model", "predict",
    "evaluate", "insert", "log_metric", "end_run">>

\* C24: within one model's pipeline the steps happen in the documented order;
\* predict is asked for n_test points from the earliest test date with
\* future_only true (whenever the call is made: without test data the step
\* raises before it) and returns the days of the test window; after a step
\* raised, no later step of that model is executed except closing the run.
C24_PipelineStepOrder ==
  /\ [](\E k \in 0..Len(PipelineOrder) :
          \/ cur.steps = SubSeq(PipelineOrder, 1, k)
          \/ /\ t_idx \in raised_in
             /\ k >= 1
             /\ cur.steps = SubSeq(PipelineOrder, 1, k) \o <<"end_run">>)
  /\ [](cur.predict_call # NoPredictCall =>
          /\ cur.predict_call.n_days = n_test
          /\ cur.predict_call.future_only
          /\ \E r \in 1..Len(test_data.rows) :
               test_data.rows[r].date = cur.predict_call.fcst_first_date
          /\ \A r \in 1..Len(test_data.rows) :
               test_data.rows[r].date >= cur.predict_call.fcst_first_date
          /\ cur.has_pred =>
               {cur.pred[i].date : i \in 1..Len(cur.pred)}
                 = {test_data.rows[r].date : r \in 1..Len(test_data.rows)})
  /\ [][(t_idx \in raised_in /\ t_idx' = t_idx) =>
         cur'.steps \in {cur.steps, Append(cur.steps, "end_run")}]_vars

\* C24's case: the pipeline of one model raised at fit and only its run was
\* closed afterwards; the next model went through all ten steps with a test
\* window of two days
C24_Witness ==
  /\ t_pc = "done" /\ t_idx = 2 /\ n_test = 2
  /\ 1 \in raised_in /\ 1 \in opens /\ models[1] = "external"
  /\ Len(df_performances) = 1
  /\ cur.steps = PipelineOrder
  /\ Len(cur.pred) = 2

\* C27: the evaluation pairs each predicted value with the actual test value
\* of the same date: the i-th element of the actual array and the i-th element
\* of the predicted array passed to evaluate_model stand for the same day.
C27_EvaluationPairsSameDay ==
  \A i \in 1..Len(cur.pairs) : cur.pairs[i].actual = cur.pairs[i].pred

\* C28: a model has a row in the performance table after training() only if
\* every step of its pipeline completed without error: it was fitted, its
\* artifact was logged to its run, and no statement of its pipeline raised
\* (logging its metrics and closing its run included).
C28_RowOnlyIfPipelineSucceeded ==
  t_pc = "done" =>
    \A r \in 1..Len(df_performances) :
      df_performances[r].run_id # 0 =>
        /\ df_performances[r].fitted
        /\ df_performances[r].artifact
        /\ df_performances[r].run_id \notin raised_in

\* the versions that enter the stage in a step
Entering(stage) ==
  {v \in 1..Len(registry') :
     registry'[v] = stage /\ (v > Len(registry) \/ registry[v] # stage)}

\* C25: after any sequence of serialized deploy() invocations, any step of
\* which may fail, the registry holds at most one version in Staging and at
\* most one in Production, and a version enters Production from Staging only
\* (never from the stage of a version that was just registered).
C25_OneVersionPerStage ==
  /\ [](/\ Cardinality(VersionsIn(registry, "Staging")) <= 1
        /\ Cardinality(VersionsIn(registry, "Production")) <= 1)
  /\ [][\A v \in Entering("Production") :
          v <= Len(registry) /\ registry[v] = "Staging"]_vars
  /\ [][\A v \in Entering("Staging") :
          v <= Len(registry) /\ registry[v] = "None"]_vars

\* C25's case: the third deploy in a row staged its version while the version
\* of the second is in Production and the version of the first is archived
C25_Witness ==
  /\ d_count = 3
  /\ Len(registry) = 3
  /\ registry = <<"Archived", "Production", "Staging">>

\* C26: when the unit test itself fails with an exception (its status is
\* None), no promotion to Production is requested, the version stays in
\* Staging, Production is as before the deploy and deploy() returns; so every
\* version that enters Production does so after a unit test of the same
\* invocation that completed with status OK on that version.
C26_FailedUnitTestBlocksPromotion ==
  /\ [](unit_test_status = "None" =>
          /\ d_pc = "returned"
          /\ LastRequest = Request("unit_test", FALSE)
          /\ registry[d_version] = "Staging"
          /\ VersionsIn(registry, "Production") = prod_before)
  /\ [][\A v \in Entering("Production") :
          /\ v = d_version
          /\ unit_test_status = "OK"
          /\ d_loaded = v
          /\ Request("unit_test", TRUE) \in {d_reqs[i] : i \in 1..Len(d_reqs)}]_vars

\* C26's case: the staged model could not be loaded by the unit test while an
\* earlier version is in Production
C26_Witness ==
  /\ unit_test_status = "None"
  /\ d_pc = "returned"
  /\ d_loaded = 0
  /\ prod_before # {}
  /\ registry[d_version] = "Staging"

\* C29: when the baseline row "prod_model" is the winner, deploy() requests
\* no stage transition, the versions in Staging and in Production stay as
\* they are, and deploy() returns.
C29_BaselineWinnerChangesNoStage ==
  /\ [](winner = "prod_model" =>
          /\ ~Requested("promote_staging")
          /\ ~Requested("promote_production")
          /\ ~Requested("unit_test")
          /\ d_pc \in {"register", "set_tag", "returned"})
  /\ [][winner' = "prod_model" =>
          /\ VersionsIn(registry', "Staging") = VersionsIn(registry, "Staging")
          /\ VersionsIn(registry', "Production") = VersionsIn(registry, "Production")]_vars

\* C29's case: earlier deploys left a version in Production and one in
\* Staging; the deploy of the baseline registered a version and returned
C29_Witness ==
  /\ winner = "prod_model"
  /\ d_pc = "returned"
  /\ d_reqs = <<Request("register", TRUE)>>
  /\ VersionsIn(registry, "Production") # {}
  /\ VersionsIn(registry, "Staging") # {}
  /\ registry[d_version] = "None"

\* the weighted average of the raw metric values of the i-th row that entered
\* competition()
RawScore(i) == ErrorAvg(df_entered[i], fcst_competition_metric_weights)

\* C30: the standardization step does not affect which row wins: on a table
\* of at least two rows, with weights of a positive sum, the winner is the
\* first row that minimizes the weighted sum of the raw metric values.
C30_StandardizationKeepsWinner ==
  (/\ c_pc = "returned"
   /\ Len(df_entered) >= 2
   /\ SumOf(fcst_competition_metric_weights) > 0) =>
    \E i \in 1..Len(df_entered) :
      /\ df_entered[i].model_name = winning_model_name
      /\ \A j \in 1..Len(df_entered) : ~Less(RawScore(j), RawScore(i))
      /\ \A j \in 1..(i - 1) : Less(RawScore(i), RawScore(j))

\* C23: performance rows live for one orchestration run only: once the deploy
\* decision is made (deploy() returned after the competition selected a row
\* and its registration was requested), the table holds no row of the cycle.
C23_RowsDiscardedAfterDeploy ==
  (/\ c_pc = "returned"
   /\ d_pc = "returned"
   /\ Requested("register")) => df_performances = <<>>

====
